---- MODULE Spec2Model ----
(***************************************************************************)
(* Model of the room server of the Truth-or-Dare party game                *)
(* (src/server/routes.ts) over its in-memory repository (MemStorage,       *)
(* src/client/src/pages/game-room.tsx:865-1129).                           *)
(*                                                                         *)
(* One room is modelled; its record and its GameState exist from the       *)
(* start (POST /api/rooms/create).  User ids are handed out in creation    *)
(* order, so the id order is the joinedAt order and the insertion order    *)
(* of the users Map.  The display name a connection joins with is the      *)
(* number of the connection.  0 stands for null / undefined.               *)
(*                                                                         *)
(* In Spec every socket handler and timer callback runs as one step; in    *)
(* SpecAsync a handler yields at its awaited storage calls.                *)
(***************************************************************************)
EXTENDS Integers, Sequences, FiniteSets, TLC

\* ------------------------------------------------------------------ bounds
NumSockets == 3
MaxUsers == 3
MaxVotes == 1
MaxSpinTimers == 1
MaxSkips == 1
MaxTasks == 2
LiveUsers == 2
MaxMessages == 2
MaxPrechecks == 11
MaxCalls == 3
MaxClock == 4

\* `if (kickedUser.rejoinAttempts >= 10)`
MaxRejoinAttempts == 10

\* The roomId of the room that is modelled and of another room of the server,
\* of which only the connections that joined it are kept.
TheRoom == 1
OtherRoom == 2

Sockets == 1..NumSockets
UserIds == 1..MaxUsers
VoteIds == 1..MaxVotes
TaskIds == 1..MaxTasks

Phases == {"waiting", "spinning", "choosing", "asking", "answering"}
VoteTypes == {"kick", "rejoin"}

VARIABLES
  connected,        \* connected[s]: socket s is still connected
  socketData,       \* socketData[s]: the closure variable of connection s
  users,            \* MemStorage.users of the room: id -> User
  nextUserId,       \* number of User records created so far, plus one
  gameState,        \* MemStorage.gameStates entry of the room
  activeVotes,      \* the module-level Map activeVotes: voteId -> VoteData
  nextVoteId,       \* number of votes created so far, plus one
  inactivityTimers, \* the module-level Map inactivityTimers: userId -> pending 120 s timer
  escalations,      \* pending 5 s timers set by a fired inactivity timer
  spinTimers,       \* pending spin-resolution timers
  graceTimers,      \* sockets whose 120 s reconnect timer is pending
  kickedUsers,      \* MemStorage.kickedUsers of the room, in creation order
  resolveCount,     \* per vote: number of vote_resolved events emitted
  out,              \* what the last step emitted: vote_resolved, new_host
  tasks,            \* handlers suspended at an awaited storage call
  room,             \* MemStorage.rooms entry of the room
  messages,         \* number of Message records of the room
  rateLimits,       \* MemStorage.rateLimits, in insertion order
  clock,            \* Date.now(), in ms
  admitted          \* the calls checkRateLimit admitted: address, action, time

vars == <<connected, socketData, users, nextUserId, gameState, activeVotes,
          nextVoteId, inactivityTimers, escalations, spinTimers, graceTimers,
          kickedUsers, resolveCount, out, tasks, room, messages,
          rateLimits, clock, admitted>>

\* The state of the rate limiter.
limiterVars == <<rateLimits, clock, admitted>>

\* ----------------------------------------------------------------- helpers
Min(S) == CHOOSE x \in S : \A y \in S : x <= y

\* The origin address of a connection (socket.handshake.address).
IpOf(s) == s

\* The elements of a set of ids in increasing order: Map iteration order.
RECURSIVE SortedSeq(_)
SortedSeq(S) == IF S = {} THEN << >> ELSE <<Min(S)>> \o SortedSeq(S \ {Min(S)})

\* Array.prototype.findIndex, 0-based, -1 when absent.
findIndex(seq, x) ==
  IF \E i \in 1..Len(seq) : seq[i] = x
    THEN (CHOOSE i \in 1..Len(seq) : seq[i] = x) - 1
    ELSE -1

\* storage.getUsersByRoom(roomId), as a set of ids and as the array.
getUsersByRoom(us) == DOMAIN us
onlineUsers(us) == {u \in DOMAIN us : us[u].isOnline}

\* storage.deleteUser
deleteUser(us, u) == [w \in (DOMAIN us) \ {u} |-> us[w]]

\* storage.makeUserHost: sets the flag of one user; no other flag is reset.
makeUserHost(us, u) ==
  IF u \in DOMAIN us THEN [us EXCEPT ![u].isHost = TRUE] ELSE us

\* storage.createUser(username, roomId, room.maxSkips, socket.id).  used, which
\* is no field of the User, counts the use_skip events of the user that
\* lowered the count.
createUserAs(us, id, s, username) ==
  [w \in (DOMAIN us) \cup {id} |->
     IF w = id
       THEN [username |-> username, isHost |-> FALSE, isOnline |-> TRUE,
             skipsRemaining |-> room.maxSkips, socketId |-> s, used |-> 0]
       ELSE us[w]]

\* storage.createUser for a connection that joins under its own number.
createUser(us, id, s) == createUserAs(us, id, s, s)

\* storage.updateRoomActivity: lastActivity becomes the current time.  The
\* time since lastActivity is kept, not the time itself: "now", "recent"
\* (at most 30 minutes ago) or "old" (more than 30 minutes ago).
updateRoomActivity(r) == IF r.exists THEN [r EXCEPT !.lastActivity = "now"] ELSE r

\* storage.createMessage, the count being kept up to MaxMessages.
createMessage(n) == IF n < MaxMessages THEN n + 1 ELSE n

\* storage.updateUserOnline(userId, false)
updateUserOnline(us, u) ==
  IF u \in DOMAIN us THEN [us EXCEPT ![u].isOnline = FALSE] ELSE us

\* clearInactivityTimer(userId)
clearInactivityTimer(timers, u) == [w \in (DOMAIN timers) \ {u} |-> timers[w]]

\* startInactivityTimer(roomId, userId, username), called in the closure of
\* connection s: the previous timer of the user is cleared, a new one is set.
startInactivityTimer(timers, u, s) ==
  [w \in (DOMAIN timers) \cup {u} |-> IF w = u THEN s ELSE timers[w]]

\* A VoteData object whose 30 s timer is never set.
NewVoteNoTimer(target, initiator, type, s) ==
  [targetUserId |-> target, initiatorUserId |-> initiator, type |-> type,
   votes |-> << >>, timer |-> FALSE, sock |-> s]

\* The VoteData object built by initiate_vote and by the inactivity escalation;
\* sock is the connection whose closure the 30 s timer runs resolveVote in.
NewVote(target, initiator, type, s) ==
  [targetUserId |-> target, initiatorUserId |-> initiator, type |-> type,
   votes |-> << >>, timer |-> TRUE, sock |-> s]

yesCount(votes) == Cardinality({u \in DOMAIN votes : votes[u]})
noCount(votes) == Cardinality({u \in DOMAIN votes : ~votes[u]})

\* A result that lets a tie pass.
votePassedOnTie(votes) == yesCount(votes) >= noCount(votes)

\* const passed = yesVotes > noVotes
votePassed(votes) == yesCount(votes) > noCount(votes)

\* voteData.votes.set(userId, vote)
setBallot(votes, u, b) ==
  [w \in (DOMAIN votes) \cup {u} |-> IF w = u THEN b ELSE votes[w]]

\* Eligible voters that include the target.
eligibleVotersWithTarget(us, target) == Cardinality(DOMAIN us)

\* users.filter(u => u.id !== voteData.targetUserId).length
eligibleVoters(us, target) == Cardinality((DOMAIN us) \ {target})

\* The host chosen by resolveVote after the host was removed.
kickNewHost(remaining) == Min(DOMAIN remaining)

\* A host chosen as the online user who joined last.
graceNewHostLatest(us) ==
  CHOOSE x \in onlineUsers(us) : \A y \in onlineUsers(us) : y <= x

\* The host chosen by the reconnect timer after the host went offline.
graceNewHost(us) == Min(onlineUsers(us))

\* out of a step that handles no inbound event and emits nothing: the
\* vote_resolved, new_host, error, user_inactive and vote_started it emitted,
\* the inbound event it handled with the user of the calling connection, the
\* connections it sent kicked_from_room to and took out of the room's
\* broadcast group, the user its user_left names, the response of the join
\* precheck it served, and the bottle_spinning it emitted.
NoEvent == [voteId |-> 0]
NoOut == [resolved |-> NoEvent, newHost |-> 0, event |-> "none", userId |-> 0,
          error |-> "none", inactive |-> 0, started |-> NoEvent,
          kicked |-> {}, left |-> 0, response |-> [status |-> 0],
          spinning |-> [targetUserId |-> 0]]

\* out of a step that handles the inbound event `event` of user u.
Handled(event, u) == [NoOut EXCEPT !.event = event, !.userId = u]

\* A free slot of tasks.
Idle == [kind |-> "idle"]

\* -------------------------------------------------------------------- Init
\* The room as POST /api/rooms/create leaves it, maxSkips being taken from
\* the request as it is.
InitRoom(maxSkips) ==
  /\ room = [exists |-> TRUE, maxSkips |-> maxSkips, lastActivity |-> "now"]
  /\ messages = 0
  /\ connected = [s \in Sockets |-> TRUE]
  /\ socketData = [s \in Sockets |-> [userId |-> 0, roomId |-> 0]]
  /\ users = << >>
  /\ nextUserId = 1
  /\ gameState = [currentTurnUserId |-> 0, targetUserId |-> 0,
                  gamePhase |-> "waiting", questionText |-> 0, choice |-> "null"]
  /\ activeVotes = << >>
  /\ nextVoteId = 1
  /\ inactivityTimers = << >>
  /\ escalations = {}
  /\ spinTimers = {}
  /\ graceTimers = {}
  /\ kickedUsers = << >>
  /\ resolveCount = [v \in VoteIds |-> 0]
  /\ out = NoOut
  /\ tasks = [i \in TaskIds |-> Idle]
  /\ rateLimits = << >>
  /\ clock = 0
  /\ admitted = << >>

Init == InitRoom(MaxSkips)

\* The room created with any maxSkips the request may carry: the route takes
\* `maxSkips || 0` without a check of its sign.
InitSkips == \E maxSkips \in -1..MaxSkips : InitRoom(maxSkips)

\* ------------------------------------------------------- socket handlers
\* A start of the game that gives the turn to the user who joined last.
joinGameStateLast(gs, allUsers) ==
  IF Len(allUsers) = 2 /\ gs.gamePhase = "waiting"
    THEN [gs EXCEPT !.currentTurnUserId = allUsers[2], !.gamePhase = "choosing"]
    ELSE gs

\* The GameState a join of the second user leaves, the first of the users
\* having the turn; the GameState of any other join stays as it is.
joinGameState(gs, allUsers) ==
  IF Len(allUsers) = 2 /\ gs.gamePhase = "waiting"
    THEN [gs EXCEPT !.currentTurnUserId = allUsers[1], !.gamePhase = "choosing"]
    ELSE gs

\* socket.on('join_room'): a User record is created for the connection, the
\* first user of the room becomes host, and the second user starts the game.
\* Connections are interchangeable, so they are numbered in the order of
\* their first join.
JoinRoomAs(s, username) ==
  /\ room.exists
  /\ connected[s]
  /\ nextUserId <= MaxUsers
  /\ \A r \in Sockets : r < s => socketData[r].userId # 0
  /\ LET id == nextUserId
         created == createUserAs(users, id, s, username)
         hosted == IF Cardinality(getUsersByRoom(created)) = 1
                     THEN makeUserHost(created, id) ELSE created
         allUsers == SortedSeq(getUsersByRoom(hosted))
     IN /\ users' = hosted
        /\ nextUserId' = id + 1
        /\ socketData' = [socketData EXCEPT
                            ![s] = [userId |-> id, roomId |-> TheRoom]]
        /\ gameState' = joinGameState(gameState, allUsers)
  /\ UNCHANGED <<connected, activeVotes, nextVoteId, inactivityTimers,
                 escalations, spinTimers, graceTimers, kickedUsers,
                 resolveCount, tasks>>
  /\ room' = updateRoomActivity(room)
  /\ messages' = createMessage(messages)
  /\ out' = Handled("join_room", nextUserId)
  /\ UNCHANGED limiterVars

\* join_room of a connection under its own number as display name.
JoinRoom(s) == JoinRoomAs(s, s)

\* The id of the User that a join_room for the other room creates for
\* connection s: an id of no user of the modelled room.
OtherUser(s) == MaxUsers + s

\* socket.on('join_room') with the roomId of the other room: the User is
\* created there, and the closure of the connection names it and that room.
\* Of the modelled room nothing changes.
JoinOtherRoom(s) ==
  /\ connected[s]
  /\ \A r \in Sockets : r < s => socketData[r].userId # 0
  /\ socketData' = [socketData EXCEPT
                      ![s] = [userId |-> OtherUser(s), roomId |-> OtherRoom]]
  /\ out' = NoOut
  /\ UNCHANGED <<connected, users, nextUserId, gameState, activeVotes,
                 nextVoteId, inactivityTimers, escalations, spinTimers,
                 graceTimers, kickedUsers, resolveCount, tasks, room,
                 messages>>
  /\ UNCHANGED limiterVars

\* Candidates that include the caller.
otherUsersWithCaller(us, caller) == onlineUsers(us)

\* onlineUsers.filter(u => u.id !== socketData.userId): whom a spin may select.
otherUsers(us, caller) == onlineUsers(us) \ {caller}

\* const durations = [2000, 4500, 7000]
durations == {2000, 4500, 7000}

\* A spin-resolution timer set to the duration itself.
spinDelayNone(duration) == duration

\* setTimeout(..., duration + 1000)
spinDelay(duration) == duration + 1000

\* The handle of a new spin-resolution timer: the first number that no
\* pending spin timer has.
newSpinTimerId(timers) ==
  Min({i \in 1..MaxSpinTimers : \A t \in timers : t.id # i})

\* A spin that a single online user is enough for.
enoughPlayersOne(us) == Cardinality(onlineUsers(us)) >= 1

\* `if (onlineUsers.length < 2)` does not hold
enoughPlayers(us) == Cardinality(onlineUsers(us)) >= 2

\* socket.on('spin_bottle') of a connection that has joined: with fewer than
\* two online users the caller gets the error 'Not enough players' (by
\* socket.emit, to the caller alone) and nothing changes; otherwise a target
\* is drawn among the online users other than the caller and a duration among
\* the durations, both are announced by bottle_spinning, and the
\* spin-resolution timer is set.  (A connection that has not joined gets
\* 'Not authenticated' and nothing changes.)
SpinBottleFor(s, target, duration) ==
  /\ connected[s]
  /\ socketData[s].userId # 0
  /\ IF enoughPlayers(users)
       THEN /\ target \in otherUsers(users, socketData[s].userId)
            /\ Cardinality(spinTimers) < MaxSpinTimers
            /\ gameState' = [gameState EXCEPT !.gamePhase = "spinning",
                                              !.targetUserId = target]
            /\ spinTimers' = spinTimers \cup
                 {[targetUserId |-> target, sock |-> s, duration |-> duration,
                   delay |-> spinDelay(duration),
                   id |-> newSpinTimerId(spinTimers)]}
            /\ out' = [Handled("spin_bottle", socketData[s].userId) EXCEPT
                         !.spinning = [targetUserId |-> target,
                                       duration |-> duration]]
       ELSE /\ UNCHANGED <<gameState, spinTimers>>
            /\ out' = [Handled("spin_bottle", socketData[s].userId) EXCEPT
                         !.error = "Not enough players"]
  /\ UNCHANGED <<room, messages, connected, socketData, users, nextUserId, activeVotes,
                 nextVoteId, inactivityTimers, escalations, graceTimers,
                 kickedUsers, resolveCount, tasks>>
  /\ UNCHANGED limiterVars

\* A spin of the shortest duration: the duration only sets the delay of the
\* spin-resolution timer.
SpinBottle(s, target) == SpinBottleFor(s, target, 2000)

\* The setTimeout callback of spin_bottle, duration + 1000 ms after the spin.
SpinResolve(t) ==
  /\ t \in spinTimers
  /\ spinTimers' = spinTimers \ {t}
  /\ gameState' = [gameState EXCEPT !.gamePhase = "choosing",
                                    !.targetUserId = t.targetUserId]
  /\ inactivityTimers' =
       startInactivityTimer(inactivityTimers, t.targetUserId, t.sock)
  /\ UNCHANGED <<room, messages, connected, socketData, users, nextUserId, activeVotes,
                 nextVoteId, escalations, graceTimers, kickedUsers,
                 resolveCount, tasks>>
  /\ out' = NoOut
  /\ UNCHANGED limiterVars

\* socket.on('choose_truth_or_dare')
ChooseTruthOrDare(s, choice) ==
  /\ connected[s]
  /\ socketData[s].userId # 0
  /\ gameState' = [gameState EXCEPT !.gamePhase = "asking", !.choice = choice]
  /\ LET cleared == clearInactivityTimer(inactivityTimers, socketData[s].userId)
         cur == gameState.currentTurnUserId
     IN inactivityTimers' =
          IF cur \in DOMAIN users
            THEN startInactivityTimer(cleared, cur, s)
            ELSE cleared
  /\ UNCHANGED <<room, messages, connected, socketData, users, nextUserId, activeVotes,
                 nextVoteId, escalations, spinTimers, graceTimers,
                 kickedUsers, resolveCount, tasks>>
  /\ out' = Handled("choose_truth_or_dare", socketData[s].userId)
  /\ UNCHANGED limiterVars

\* socket.on('submit_question')
SubmitQuestion(s) ==
  /\ connected[s]
  /\ socketData[s].userId # 0
  /\ gameState' = [gameState EXCEPT !.gamePhase = "answering",
                                    !.questionText = 1]
  /\ inactivityTimers' =
       clearInactivityTimer(inactivityTimers, socketData[s].userId)
  /\ UNCHANGED <<room, messages, connected, socketData, users, nextUserId, activeVotes,
                 nextVoteId, escalations, spinTimers, graceTimers,
                 kickedUsers, resolveCount, tasks>>
  /\ out' = Handled("submit_question", socketData[s].userId)
  /\ UNCHANGED limiterVars

\* The GameState written by next_turn.
nextTurnState(gs, us) ==
  LET online == SortedSeq(onlineUsers(us))
      currentIndex == findIndex(online, gs.currentTurnUserId)
      nextIndex == (currentIndex + 1) % Len(online)
  IN [gs EXCEPT !.currentTurnUserId = online[nextIndex + 1],
                !.targetUserId = 0,
                !.gamePhase = IF Len(online) = 2 THEN "choosing" ELSE "waiting",
                !.questionText = 0,
                !.choice = "null"]

\* socket.on('next_turn'): no check of the caller at all.
NextTurn(s) ==
  /\ connected[s]
  /\ Cardinality(onlineUsers(users)) >= 2
  /\ gameState' = nextTurnState(gameState, users)
  /\ UNCHANGED <<room, messages, connected, socketData, users, nextUserId, activeVotes,
                 nextVoteId, inactivityTimers, escalations, spinTimers,
                 graceTimers, kickedUsers, resolveCount, tasks>>
  /\ out' = Handled("next_turn", socketData[s].userId)
  /\ UNCHANGED limiterVars

\* storage.updateUserSkips
updateUserSkips(us, u, n) ==
  IF u \in DOMAIN us THEN [us EXCEPT ![u].skipsRemaining = n] ELSE us

\* users after a use_skip of user u passed its test and wrote the count n.
skipUsed(us, u, n) ==
  IF u \in DOMAIN us
    THEN [updateUserSkips(us, u, n) EXCEPT ![u].used = @ + 1]
    ELSE us

\* socket.on('use_skip'): a caller without a User record or without a skip
\* left gets an error; otherwise the count is lowered and 'next_turn' is
\* emitted to the caller's own client, which has no listener for it; the
\* server's next_turn handler is not run.
UseSkip(s) ==
  /\ connected[s]
  /\ socketData[s].userId # 0
  /\ LET u == socketData[s].userId
     IN IF u \in DOMAIN users /\ users[u].skipsRemaining > 0
          THEN /\ users' = skipUsed(users, u, users[u].skipsRemaining - 1)
               /\ out' = Handled("use_skip", u)
          ELSE /\ users' = users
               /\ out' = [Handled("use_skip", u) EXCEPT
                            !.error = "No skips remaining"]
  /\ UNCHANGED <<room, messages, connected, socketData, nextUserId, gameState,
                 activeVotes, nextVoteId, inactivityTimers, escalations,
                 spinTimers, graceTimers, kickedUsers, resolveCount, tasks>>
  /\ UNCHANGED limiterVars

\* ---------------------------------------------------------- vote subsystem
\* The record of a vote_resolved event (voteId, passed, yesVotes, noVotes),
\* with the vote it resolves, its ballots and the size of the room when
\* resolveVote began.
resolvedEvent(v, vd, us) ==
  [voteId |-> v,
   passed |-> votePassed(vd.votes),
   yesVotes |-> yesCount(vd.votes),
   noVotes |-> noCount(vd.votes),
   type |-> vd.type,
   targetUserId |-> vd.targetUserId,
   initiatorUserId |-> vd.initiatorUserId,
   ballots |-> vd.votes,
   roomUsers |-> Cardinality(getUsersByRoom(us)),
   onlineUsers |-> Cardinality(onlineUsers(us))]

\* The ban record written by resolveVote in the closure of connection s:
\* storage.createKickedUser(roomId, ipAddress, targetUser.username) with the
\* address taken from the handshake of that connection.  voteId, targetUserId,
\* targetName and targetIp record which vote wrote it and whom it was meant for.
banRecord(v, target, targetUser, s) ==
  [ipAddress |-> IpOf(s), username |-> targetUser.username, voteId |-> v,
   targetUserId |-> target, targetName |-> targetUser.username,
   targetIp |-> IpOf(targetUser.socketId),
   rejoinAttempts |-> 0, isPermanentlyBlocked |-> FALSE, prechecks |-> 0]

\* socket.data of a connection.  No handler assigns it: each connection keeps
\* its user in the closure variable socketData, so socket.data has no userId.
dataOf(s) == [userId |-> 0]

\* Array.from(io.sockets.sockets.values()).find(s => s.data.userId === target):
\* the connected sockets whose socket.data names the target.
targetSocket(target) ==
  {s \in Sockets : connected[s] /\ dataOf(s).userId = target}

\* resolveVote(voteId, roomId) on the VoteData vd, run in the closure of
\* connection s by a step whose out is o so far.
resolveVote(v, vd, s, o) ==
  LET target == vd.targetUserId
      kick == votePassed(vd.votes) /\ vd.type = "kick" /\ target \in DOMAIN users
      remainingUsers == deleteUser(users, target)
      reassign == kick /\ DOMAIN remainingUsers # {} /\ users[target].isHost
  IN /\ users' = IF reassign
                   THEN makeUserHost(remainingUsers, kickNewHost(remainingUsers))
                   ELSE IF kick THEN remainingUsers ELSE users
     /\ kickedUsers' = IF kick
                         THEN Append(kickedUsers, banRecord(v, target, users[target], s))
                         ELSE kickedUsers
     /\ out' = [o EXCEPT
                  !.resolved = resolvedEvent(v, vd, users),
                  !.newHost = IF reassign THEN kickNewHost(remainingUsers) ELSE 0,
                  !.kicked = IF kick THEN targetSocket(target) ELSE {},
                  !.left = IF kick THEN target ELSE 0]
     /\ resolveCount' = [resolveCount EXCEPT ![v] = @ + 1]
     /\ activeVotes' = [w \in (DOMAIN activeVotes) \ {v} |-> activeVotes[w]]

\* socket.on('initiate_vote'): any joined connection, against any existing user.
InitiateVote(s, target, type) ==
  /\ connected[s]
  /\ socketData[s].userId # 0
  /\ target \in DOMAIN users
  /\ nextVoteId <= MaxVotes
  /\ activeVotes' =
       [w \in (DOMAIN activeVotes) \cup {nextVoteId} |->
          IF w = nextVoteId
            THEN NewVote(target, socketData[s].userId, type, s)
            ELSE activeVotes[w]]
  /\ nextVoteId' = nextVoteId + 1
  /\ UNCHANGED <<room, messages, connected, socketData, users, nextUserId, gameState,
                 inactivityTimers, escalations, spinTimers, graceTimers,
                 kickedUsers, resolveCount, tasks>>
  /\ out' = [Handled("initiate_vote", socketData[s].userId) EXCEPT
               !.started = [voteId |-> nextVoteId, targetUserId |-> target,
                            initiatorUserId |-> socketData[s].userId,
                            type |-> type]]
  /\ UNCHANGED limiterVars

\* socket.on('cast_vote'): the ballot of the caller is set; when the ballots
\* are as many as the users of the room other than the target, the timer is
\* cleared and the vote resolved.
CastVote(s, v, b) ==
  /\ connected[s]
  /\ socketData[s].userId # 0
  /\ v \in DOMAIN activeVotes
  /\ LET vd == [activeVotes[v] EXCEPT
                  !.votes = setBallot(@, socketData[s].userId, b)]
     IN IF Cardinality(DOMAIN vd.votes) >= eligibleVoters(users, vd.targetUserId)
          THEN resolveVote(v, [vd EXCEPT !.timer = FALSE], s,
                           Handled("cast_vote", socketData[s].userId))
          ELSE /\ activeVotes' = [activeVotes EXCEPT ![v] = vd]
               /\ out' = Handled("cast_vote", socketData[s].userId)
               /\ UNCHANGED <<users, kickedUsers, resolveCount>>
  /\ UNCHANGED <<room, messages, connected, socketData, nextUserId, gameState, nextVoteId,
                 inactivityTimers, escalations, spinTimers, graceTimers, tasks>>
  /\ UNCHANGED limiterVars

\* The 30 s timer of a vote; timers of equal delay fire in the order they
\* were set.
VoteTimeout(v) ==
  /\ v \in DOMAIN activeVotes
  /\ activeVotes[v].timer
  /\ \A w \in DOMAIN activeVotes : w < v => ~activeVotes[w].timer
  /\ resolveVote(v, activeVotes[v], activeVotes[v].sock, NoOut)
  /\ UNCHANGED <<room, messages, connected, socketData, nextUserId, gameState, nextVoteId,
                 inactivityTimers, escalations, spinTimers, graceTimers, tasks>>
  /\ UNCHANGED limiterVars

\* ------------------------------------------------------ inactivity supervisor
\* The 120 s callback of startInactivityTimer: user_inactive is broadcast and
\* a 5 s timer is set, whose handle is kept nowhere.  (The fired handle stays
\* in the Map until it is cleared or replaced, which has no effect.)  A 5 s
\* timer of the same user set earlier has fired by then.
InactivityWarn(u) ==
  /\ u \in DOMAIN inactivityTimers
  /\ \A e \in escalations : e.userId # u
  /\ escalations' = escalations \cup {[userId |-> u, sock |-> inactivityTimers[u]]}
  /\ inactivityTimers' = clearInactivityTimer(inactivityTimers, u)
  /\ UNCHANGED <<room, messages, connected, socketData, users, nextUserId, gameState,
                 activeVotes, nextVoteId, spinTimers, graceTimers, kickedUsers,
                 resolveCount, tasks>>
  /\ out' = [NoOut EXCEPT !.inactive = u]
  /\ UNCHANGED limiterVars

\* The 5 s callback: a kick vote of initiator 'system' is created.
InactivityEscalate(e) ==
  /\ e \in escalations
  /\ nextVoteId <= MaxVotes
  /\ escalations' = escalations \ {e}
  /\ activeVotes' =
       [w \in (DOMAIN activeVotes) \cup {nextVoteId} |->
          IF w = nextVoteId
            THEN NewVote(e.userId, 0, "kick", e.sock)
            ELSE activeVotes[w]]
  /\ nextVoteId' = nextVoteId + 1
  /\ UNCHANGED <<room, messages, connected, socketData, users, nextUserId, gameState,
                 inactivityTimers, spinTimers, graceTimers, kickedUsers,
                 resolveCount, tasks>>
  /\ out' = [NoOut EXCEPT
               !.started = [voteId |-> nextVoteId, targetUserId |-> e.userId,
                            initiatorUserId |-> 0, type |-> "kick"]]
  /\ UNCHANGED limiterVars

\* ------------------------------------------------------------- presence
\* socket.on('disconnect') of a connection that has joined: the inactivity
\* timer of its user is cleared and the 120 s reconnect timer is set.  The
\* second 120 s timer, set after it to clear it, fires after it and clears
\* nothing.  (The disconnect of a connection that never joined does nothing.)
Disconnect(s) ==
  /\ connected[s]
  /\ socketData[s].userId # 0
  /\ connected' = [connected EXCEPT ![s] = FALSE]
  /\ inactivityTimers' =
       clearInactivityTimer(inactivityTimers, socketData[s].userId)
  /\ graceTimers' = graceTimers \cup {s}
  /\ UNCHANGED <<room, messages, socketData, users, nextUserId, gameState, activeVotes,
                 nextVoteId, escalations, spinTimers, kickedUsers,
                 resolveCount, tasks>>
  /\ out' = NoOut
  /\ UNCHANGED limiterVars

\* The reconnect timer of connection s fires.
GraceFire(s) ==
  /\ s \in graceTimers
  /\ graceTimers' = graceTimers \ {s}
  /\ LET u == socketData[s].userId
         valid == u \in DOMAIN users /\ users[u].socketId = s
         offline == updateUserOnline(users, u)
         reassign == valid /\ onlineUsers(offline) # {} /\ users[u].isHost
     IN /\ users' = IF reassign
                      THEN makeUserHost(offline, graceNewHost(offline))
                      ELSE IF valid THEN offline ELSE users
        /\ out' = [NoOut EXCEPT
                     !.newHost = IF reassign THEN graceNewHost(offline) ELSE 0,
                     !.left = IF valid THEN u ELSE 0]
  /\ UNCHANGED <<room, messages, connected, socketData, nextUserId, gameState, activeVotes,
                 nextVoteId, inactivityTimers, escalations, spinTimers,
                 kickedUsers, resolveCount, tasks>>
  /\ UNCHANGED limiterVars

\* ------------------------------------------------------------- the room
\* socket.on('send_message') of a connection that has joined: the message is
\* stored and the room's lastActivity set.  (A connection that has not joined
\* gets 'Not authenticated' and nothing changes.)
SendMessage(s) ==
  /\ connected[s]
  /\ socketData[s].userId # 0
  /\ messages' = createMessage(messages)
  /\ room' = updateRoomActivity(room)
  /\ UNCHANGED <<connected, socketData, users, nextUserId, gameState,
                 activeVotes, nextVoteId, inactivityTimers, escalations,
                 spinTimers, graceTimers, kickedUsers, resolveCount, tasks>>
  /\ out' = Handled("send_message", socketData[s].userId)
  /\ UNCHANGED limiterVars

\* No timer is pending and no vote is open.
quiet ==
  /\ spinTimers = {}
  /\ DOMAIN inactivityTimers = {}
  /\ escalations = {}
  /\ graceTimers = {}
  /\ DOMAIN activeVotes = {}

\* Time passes with no event.  From "now" the step is a long one, to just
\* under the 30 minutes of getInactiveRooms(30), so that every timer set
\* before it (at most 120 s) has fired; from "recent" it is a short one,
\* across the cutoff.
TimePasses ==
  /\ room.exists
  /\ \/ /\ room.lastActivity = "now"
        /\ quiet
        /\ room' = [room EXCEPT !.lastActivity = "recent"]
     \/ /\ room.lastActivity = "recent"
        /\ room' = [room EXCEPT !.lastActivity = "old"]
  /\ UNCHANGED <<messages, connected, socketData, users, nextUserId, gameState,
                 activeVotes, nextVoteId, inactivityTimers, escalations,
                 spinTimers, graceTimers, kickedUsers, resolveCount, tasks>>
  /\ out' = NoOut
  /\ UNCHANGED limiterVars

\* A sweep that takes every room whose lastActivity is not the current time.
getInactiveRoomsRecent(r) == r.exists /\ r.lastActivity # "now"

\* storage.getInactiveRooms(30): a room that is not expired and whose
\* lastActivity is more than 30 minutes old.
getInactiveRooms(r) == r.exists /\ r.lastActivity = "old"

\* The cleanup interval finds the room inactive: its messages are deleted and
\* the room record is expired and deleted.
Reap ==
  /\ getInactiveRooms(room)
  /\ messages' = 0
  /\ room' = [room EXCEPT !.exists = FALSE]
  /\ UNCHANGED <<connected, socketData, users, nextUserId, gameState,
                 activeVotes, nextVoteId, inactivityTimers, escalations,
                 spinTimers, graceTimers, kickedUsers, resolveCount, tasks>>
  /\ out' = NoOut
  /\ UNCHANGED limiterVars

\* -------------------------------------------------------- join precheck
\* storage.getKickedUser(roomId, ipAddress): the index of the first ban record
\* of the address, 0 when there is none.
getKickedUser(ks, ip) ==
  IF \E k \in 1..Len(ks) : ks[k].ipAddress = ip
    THEN Min({k \in 1..Len(ks) : ks[k].ipAddress = ip})
    ELSE 0

\* storage.blockUserPermanently
blockUserPermanently(ks, k) == [ks EXCEPT ![k].isPermanentlyBlocked = TRUE]

\* POST /api/rooms/join from the address ip, for the room while it exists;
\* allowed is the answer of checkRateLimit(ip, 'rejoin'), which depends on
\* the time since the last precheck of the address.  An address with no ban
\* record is let in.  For a banned address: a blocked record is rejected for
\* good; a limited request gets 429; a record of ten or more rejoinAttempts
\* is blocked and rejected for good; any other is told to ask for a rejoin
\* vote.  Nothing adds to rejoinAttempts.  prechecks, which is no field of
\* the KickedUser, counts the prechecks of the address that passed the
\* limiter, up to MaxPrechecks.
JoinPrecheck(ip, allowed) ==
  /\ room.exists
  /\ LET k == getKickedUser(kickedUsers, ip)
         counted == [kickedUsers EXCEPT
                       ![k].prechecks = IF @ < MaxPrechecks THEN @ + 1 ELSE @]
     IN IF k = 0
          THEN /\ kickedUsers' = kickedUsers
               /\ out' = [NoOut EXCEPT !.response = [status |-> 200, ip |-> ip]]
        ELSE IF kickedUsers[k].isPermanentlyBlocked
          THEN /\ kickedUsers' = counted
               /\ out' = [NoOut EXCEPT !.response =
                            [status |-> 403, ip |-> ip, requiresVote |-> FALSE]]
        ELSE IF ~allowed
          THEN /\ kickedUsers' = kickedUsers
               /\ out' = [NoOut EXCEPT !.response = [status |-> 429, ip |-> ip]]
        ELSE IF kickedUsers[k].rejoinAttempts >= MaxRejoinAttempts
          THEN /\ kickedUsers' = blockUserPermanently(counted, k)
               /\ out' = [NoOut EXCEPT !.response =
                            [status |-> 403, ip |-> ip, requiresVote |-> FALSE]]
          ELSE /\ kickedUsers' = counted
               /\ out' = [NoOut EXCEPT !.response =
                            [status |-> 403, ip |-> ip, requiresVote |-> TRUE]]
  /\ UNCHANGED <<room, messages, connected, socketData, users, nextUserId,
                 gameState, activeVotes, nextVoteId, inactivityTimers,
                 escalations, spinTimers, graceTimers, resolveCount, tasks>>
  /\ UNCHANGED limiterVars

\* ------------------------------------------------------- the rate limiter
\* The step of the clock: one minute, in ms.
Tick == 60 * 1000

\* const rateLimitConfigs: Record<string, RateLimitConfig>
rateLimitConfigs ==
  [room_creation |-> [windowMs |-> 60 * 60 * 1000, maxRequests |-> 5],
   chat_message |-> [windowMs |-> 60 * 1000, maxRequests |-> 10],
   file_upload |-> [windowMs |-> 60 * 1000, maxRequests |-> 3],
   vote |-> [windowMs |-> 5 * 60 * 1000, maxRequests |-> 3],
   rejoin |-> [windowMs |-> 3 * 60 * 1000, maxRequests |-> 1]]

\* The action types a call may name: the configured ones and one that has no
\* configuration.
ActionTypes == (DOMAIN rateLimitConfigs) \cup {"other"}

\* storage.getRateLimit(ipAddress, actionType): Array.find over the values of
\* the Map, so the index of the first record of the pair in insertion order,
\* 0 when there is none.
getRateLimit(rls, ip, actionType) ==
  IF \E k \in 1..Len(rls) : rls[k].ipAddress = ip /\ rls[k].actionType = actionType
    THEN Min({k \in 1..Len(rls) :
                rls[k].ipAddress = ip /\ rls[k].actionType = actionType})
    ELSE 0

\* storage.createRateLimit(ipAddress, actionType) at time t: a record with a
\* new id is added to the Map; no record is removed.
createRateLimit(rls, ip, actionType, t) ==
  Append(rls, [ipAddress |-> ip, actionType |-> actionType, count |-> 1,
               windowStart |-> t])

\* storage.incrementRateLimit(existing.id)
incrementRateLimit(rls, k) == [rls EXCEPT ![k].count = @ + 1]

\* checkRateLimit(ipAddress, actionType) at time t over the records rls: its
\* answer and the records it leaves.
checkRateLimit(rls, ip, actionType, t) ==
  IF actionType \notin DOMAIN rateLimitConfigs
    THEN [allowed |-> TRUE, rateLimits |-> rls]
    ELSE LET config == rateLimitConfigs[actionType]
             existing == getRateLimit(rls, ip, actionType)
         IN IF existing = 0
              THEN [allowed |-> TRUE,
                    rateLimits |-> createRateLimit(rls, ip, actionType, t)]
            ELSE IF t > rls[existing].windowStart + config.windowMs
              THEN [allowed |-> TRUE,
                    rateLimits |-> createRateLimit(rls, ip, actionType, t)]
            ELSE IF rls[existing].count >= config.maxRequests
              THEN [allowed |-> FALSE, rateLimits |-> rls]
              ELSE [allowed |-> TRUE,
                    rateLimits |-> incrementRateLimit(rls, existing)]

\* A request that is passed through checkRateLimit; admitted records the
\* calls that were let in, up to MaxCalls.
CheckRateLimit(ip, actionType) ==
  /\ Len(admitted) < MaxCalls
  /\ LET r == checkRateLimit(rateLimits, ip, actionType, clock)
     IN /\ rateLimits' = r.rateLimits
        /\ admitted' = IF r.allowed
                         THEN Append(admitted, [ipAddress |-> ip,
                                                actionType |-> actionType,
                                                at |-> clock])
                         ELSE admitted
  /\ clock' = clock
  /\ out' = NoOut
  /\ UNCHANGED <<connected, socketData, users, nextUserId, gameState,
                 activeVotes, nextVoteId, inactivityTimers, escalations,
                 spinTimers, graceTimers, kickedUsers, resolveCount, tasks,
                 room, messages>>

\* A minute passes.
ClockTick ==
  /\ clock < MaxClock * Tick
  /\ clock' = clock + Tick
  /\ out' = NoOut
  /\ UNCHANGED <<connected, socketData, users, nextUserId, gameState,
                 activeVotes, nextVoteId, inactivityTimers, escalations,
                 spinTimers, graceTimers, kickedUsers, resolveCount, tasks,
                 room, messages, rateLimits, admitted>>

\* ------------------------------------------- handlers with yield points
(***************************************************************************)
(* The same handlers with every awaited storage call as a yield point.  A  *)
(* MemStorage method takes effect when it is called; the handler resumes   *)
(* in a later step, after any number of steps of other handlers.  A        *)
(* suspended handler is a task: its position (pc), its connection and the  *)
(* values it holds in local variables.  The awaits of join_room on the     *)
(* room record come with the step that follows them, and its createMessage *)
(* with the start of the game; the await on room.hostUserId is no step.    *)
(* disturbed records that another handler wrote to the repository or to    *)
(* activeVotes while the task was suspended.                               *)
(***************************************************************************)
FreeSlot == Min({i \in TaskIds : tasks[i] = Idle})
HasFreeSlot == \E i \in TaskIds : tasks[i] = Idle

\* tasks after task i wrote to the shared state and became nt.
afterWrite(i, nt) ==
  [j \in TaskIds |->
     IF j = i THEN nt
     ELSE IF tasks[j] = Idle THEN Idle
     ELSE [tasks[j] EXCEPT !.disturbed = TRUE]]

\* tasks after task i only read, or wrote nothing shared, and became nt.
afterRead(i, nt) == [tasks EXCEPT ![i] = nt]

\* MemStorage hands out its User objects themselves, and makeUserHost sets
\* the flag on the object: a resolveVote that holds the User u as targetUser
\* sees the flag set by another handler, as long as u is in the repository.
refreshHost(ts, u) ==
  [j \in TaskIds |->
     IF /\ u \in DOMAIN users
        /\ ts[j].kind = "resolve"
        /\ ts[j].pc \in {"gotUser", "banned", "deleted", "listed"}
        /\ ts[j].found
        /\ ts[j].ev.targetUserId = u
       THEN [ts[j] EXCEPT !.wasHost = TRUE]
       ELSE ts[j]]

\* join_room up to `await storage.createUser(...)`: the room is looked up,
\* its lastActivity set and the User created.
AJoinCreate(s) ==
  /\ room.exists
  /\ connected[s]
  /\ nextUserId <= MaxUsers
  /\ \A r \in Sockets : r < s => socketData[r].userId # 0
  /\ HasFreeSlot
  /\ users' = createUser(users, nextUserId, s)
  /\ nextUserId' = nextUserId + 1
  /\ tasks' = afterWrite(FreeSlot, [kind |-> "join", pc |-> "created", sock |-> s,
                                    uid |-> nextUserId, disturbed |-> FALSE])
  /\ room' = updateRoomActivity(room)
  /\ out' = NoOut
  /\ UNCHANGED <<messages, connected, socketData, gameState, activeVotes, nextVoteId,
                 inactivityTimers, escalations, spinTimers, graceTimers,
                 kickedUsers, resolveCount>>
  /\ UNCHANGED limiterVars

\* socketData is assigned; `const users = await storage.getUsersByRoom(roomId)`.
AJoinCount(i) ==
  /\ tasks[i].kind = "join" /\ tasks[i].pc = "created"
  /\ socketData' = [socketData EXCEPT
                      ![tasks[i].sock] = [userId |-> tasks[i].uid,
                                          roomId |-> TheRoom]]
  /\ tasks' = afterRead(i, [kind |-> "join", pc |-> "counted", sock |-> tasks[i].sock,
                            uid |-> tasks[i].uid,
                            n |-> Cardinality(getUsersByRoom(users)),
                            disturbed |-> tasks[i].disturbed])
  /\ out' = NoOut
  /\ UNCHANGED <<room, messages, connected, users, nextUserId, gameState, activeVotes,
                 nextVoteId, inactivityTimers, escalations, spinTimers,
                 graceTimers, kickedUsers, resolveCount>>
  /\ UNCHANGED limiterVars

\* `if (users.length === 1) await storage.makeUserHost(user.id)`, then
\* `const allUsers = await storage.getUsersByRoom(roomId)`.
AJoinHost(i) ==
  /\ tasks[i].kind = "join" /\ tasks[i].pc = "counted"
  /\ LET nt == [kind |-> "join", pc |-> "hosted", sock |-> tasks[i].sock,
                uid |-> tasks[i].uid, disturbed |-> tasks[i].disturbed]
     IN IF tasks[i].n = 1
          THEN /\ users' = makeUserHost(users, tasks[i].uid)
               /\ tasks' = refreshHost(afterWrite(i, nt), tasks[i].uid)
          ELSE /\ users' = users
               /\ tasks' = afterRead(i, nt)
  /\ out' = NoOut
  /\ UNCHANGED <<room, messages, connected, socketData, nextUserId, gameState, activeVotes,
                 nextVoteId, inactivityTimers, escalations, spinTimers,
                 graceTimers, kickedUsers, resolveCount>>
  /\ UNCHANGED limiterVars

AJoinList(i) ==
  /\ tasks[i].kind = "join" /\ tasks[i].pc = "hosted"
  /\ tasks' = afterRead(i, [kind |-> "join", pc |-> "listed", sock |-> tasks[i].sock,
                            uid |-> tasks[i].uid,
                            allUsers |-> SortedSeq(getUsersByRoom(users)),
                            disturbed |-> tasks[i].disturbed])
  /\ out' = NoOut
  /\ UNCHANGED <<room, messages, connected, socketData, users, nextUserId, gameState,
                 activeVotes, nextVoteId, inactivityTimers, escalations,
                 spinTimers, graceTimers, kickedUsers, resolveCount>>
  /\ UNCHANGED limiterVars

\* The system message of the join is created; then
\* `if (allUsers.length === 2 && gameState?.gamePhase === 'waiting')`, on the
\* list held since AJoinList and the GameState object as it is now.
AJoinStartGame(i) ==
  /\ tasks[i].kind = "join" /\ tasks[i].pc = "listed"
  /\ gameState' = joinGameState(gameState, tasks[i].allUsers)
  /\ tasks' = afterWrite(i, Idle)
  /\ messages' = createMessage(messages)
  /\ out' = NoOut
  /\ UNCHANGED <<room, connected, socketData, users, nextUserId, activeVotes,
                 nextVoteId, inactivityTimers, escalations, spinTimers,
                 graceTimers, kickedUsers, resolveCount>>
  /\ UNCHANGED limiterVars

\* initiate_vote up to `await storage.getUser(data.targetUserId)`.
AInitiateGet(s, target, type) ==
  /\ connected[s]
  /\ socketData[s].userId # 0
  /\ nextVoteId <= MaxVotes
  /\ HasFreeSlot
  /\ tasks' = afterRead(FreeSlot, [kind |-> "init", pc |-> "gotUser", sock |-> s,
                                   target |-> target, type |-> type,
                                   found |-> target \in DOMAIN users,
                                   disturbed |-> FALSE])
  /\ out' = NoOut
  /\ UNCHANGED <<room, messages, connected, socketData, users, nextUserId, gameState,
                 activeVotes, nextVoteId, inactivityTimers, escalations,
                 spinTimers, graceTimers, kickedUsers, resolveCount>>
  /\ UNCHANGED limiterVars

\* The rest of initiate_vote: the vote is stored and its 30 s timer set.
AInitiateCreate(i) ==
  /\ tasks[i].kind = "init"
  /\ IF tasks[i].found /\ nextVoteId <= MaxVotes
       THEN /\ activeVotes' =
                 [w \in (DOMAIN activeVotes) \cup {nextVoteId} |->
                    IF w = nextVoteId
                      THEN NewVote(tasks[i].target, socketData[tasks[i].sock].userId,
                                   tasks[i].type, tasks[i].sock)
                      ELSE activeVotes[w]]
            /\ nextVoteId' = nextVoteId + 1
            /\ tasks' = afterWrite(i, Idle)
       ELSE /\ UNCHANGED <<activeVotes, nextVoteId>>
            /\ tasks' = afterRead(i, Idle)
  /\ out' = NoOut
  /\ UNCHANGED <<room, messages, connected, socketData, users, nextUserId, gameState,
                 inactivityTimers, escalations, spinTimers, graceTimers,
                 kickedUsers, resolveCount>>
  /\ UNCHANGED limiterVars

\* resolveVote from its start to its first await, on slot i in the closure of
\* connection s: the counts are taken; a passed kick vote awaits
\* storage.getUser(target), any other vote is announced and deleted at once.
resolveBegin(i, s, v, votes0) ==
  IF v \notin DOMAIN votes0
    THEN /\ tasks' = afterRead(i, Idle)
         /\ activeVotes' = votes0
         /\ out' = NoOut
         /\ UNCHANGED resolveCount
    ELSE LET vd == votes0[v]
             ev == resolvedEvent(v, vd, users)
         IN IF ev.passed /\ vd.type = "kick"
              THEN /\ tasks' =
                        afterRead(i, [kind |-> "resolve", pc |-> "gotUser", sock |-> s,
                                      v |-> v, ev |-> ev,
                                      found |-> vd.targetUserId \in DOMAIN users,
                                      wasHost |-> IF vd.targetUserId \in DOMAIN users
                                                    THEN users[vd.targetUserId].isHost
                                                    ELSE FALSE,
                                      ban |-> IF vd.targetUserId \in DOMAIN users
                                                THEN banRecord(v, vd.targetUserId,
                                                               users[vd.targetUserId], s)
                                                ELSE Idle,
                                      disturbed |-> IF tasks[i] = Idle THEN FALSE
                                                    ELSE tasks[i].disturbed])
                   /\ activeVotes' = votes0
                   /\ out' = NoOut
                   /\ UNCHANGED resolveCount
              ELSE /\ tasks' = afterWrite(i, Idle)
                   /\ activeVotes' = [w \in (DOMAIN votes0) \ {v} |-> votes0[w]]
                   /\ out' = [NoOut EXCEPT !.resolved = ev]
                   /\ resolveCount' = [resolveCount EXCEPT ![v] = @ + 1]

\* cast_vote up to `await storage.getUsersByRoom(data.roomId)`: the ballot is
\* set and vote_updated emitted.
ACastSet(s, v, b) ==
  /\ connected[s]
  /\ socketData[s].userId # 0
  /\ v \in DOMAIN activeVotes
  /\ HasFreeSlot
  /\ activeVotes' = [activeVotes EXCEPT
                       ![v].votes = setBallot(@, socketData[s].userId, b)]
  /\ tasks' = afterWrite(FreeSlot,
                [kind |-> "cast", pc |-> "counted", sock |-> s, v |-> v,
                 n |-> eligibleVoters(users, activeVotes[v].targetUserId),
                 disturbed |-> FALSE])
  /\ out' = NoOut
  /\ UNCHANGED <<room, messages, connected, socketData, users, nextUserId, gameState,
                 nextVoteId, inactivityTimers, escalations, spinTimers,
                 graceTimers, kickedUsers, resolveCount>>
  /\ UNCHANGED limiterVars

\* `if (voteData.votes.size >= eligibleVoters)`: the timer is cleared and
\* resolveVote called.  A vote already deleted is not found by resolveVote.
ACastCheck(i) ==
  /\ tasks[i].kind = "cast"
  /\ LET v == tasks[i].v
     IN IF v \in DOMAIN activeVotes
             /\ Cardinality(DOMAIN activeVotes[v].votes) >= tasks[i].n
          THEN resolveBegin(i, tasks[i].sock, v,
                            [activeVotes EXCEPT ![v].timer = FALSE])
          ELSE /\ tasks' = afterRead(i, Idle)
               /\ out' = NoOut
               /\ UNCHANGED <<activeVotes, resolveCount>>
  /\ UNCHANGED <<room, messages, connected, socketData, users, nextUserId, gameState,
                 nextVoteId, inactivityTimers, escalations, spinTimers,
                 graceTimers, kickedUsers>>
  /\ UNCHANGED limiterVars

\* The 30 s timer of a vote fires and calls resolveVote.
AVoteTimeout(v) ==
  /\ v \in DOMAIN activeVotes
  /\ activeVotes[v].timer
  /\ \A w \in DOMAIN activeVotes : w < v => ~activeVotes[w].timer
  /\ HasFreeSlot
  /\ resolveBegin(FreeSlot, activeVotes[v].sock, v,
                  [activeVotes EXCEPT ![v].timer = FALSE])
  /\ UNCHANGED <<room, messages, connected, socketData, users, nextUserId, gameState,
                 nextVoteId, inactivityTimers, escalations, spinTimers,
                 graceTimers, kickedUsers>>
  /\ UNCHANGED limiterVars

\* The end of resolveVote: vote_resolved is emitted and the vote deleted.
resolveEnd(i, newHost) ==
  /\ out' = [NoOut EXCEPT !.resolved = tasks[i].ev, !.newHost = newHost]
  /\ resolveCount' = [resolveCount EXCEPT ![tasks[i].v] = @ + 1]
  /\ activeVotes' = [w \in (DOMAIN activeVotes) \ {tasks[i].v} |-> activeVotes[w]]
  /\ tasks' = afterWrite(i, Idle)

\* `if (targetUser) { await storage.createKickedUser(...)`.
AResolveBan(i) ==
  /\ tasks[i].kind = "resolve" /\ tasks[i].pc = "gotUser"
  /\ IF tasks[i].found
       THEN /\ kickedUsers' = Append(kickedUsers, tasks[i].ban)
            /\ tasks' = afterWrite(i, [tasks[i] EXCEPT !.pc = "banned"])
            /\ out' = NoOut
            /\ UNCHANGED <<activeVotes, resolveCount>>
       ELSE /\ resolveEnd(i, 0)
            /\ UNCHANGED kickedUsers
  /\ UNCHANGED <<room, messages, connected, socketData, users, nextUserId, gameState,
                 nextVoteId, inactivityTimers, escalations, spinTimers,
                 graceTimers>>
  /\ UNCHANGED limiterVars

\* `await storage.deleteUser(voteData.targetUserId)`
AResolveDelete(i) ==
  /\ tasks[i].kind = "resolve" /\ tasks[i].pc = "banned"
  /\ users' = deleteUser(users, tasks[i].ev.targetUserId)
  /\ tasks' = afterWrite(i, [tasks[i] EXCEPT !.pc = "deleted"])
  /\ out' = NoOut
  /\ UNCHANGED <<room, messages, connected, socketData, nextUserId, gameState, activeVotes,
                 nextVoteId, inactivityTimers, escalations, spinTimers,
                 graceTimers, kickedUsers, resolveCount>>
  /\ UNCHANGED limiterVars

\* `const remainingUsers = await storage.getUsersByRoom(roomId)`
AResolveList(i) ==
  /\ tasks[i].kind = "resolve" /\ tasks[i].pc = "deleted"
  /\ tasks' = afterRead(i, [kind |-> "resolve", pc |-> "listed",
                            sock |-> tasks[i].sock, v |-> tasks[i].v,
                            ev |-> tasks[i].ev, found |-> TRUE,
                            wasHost |-> tasks[i].wasHost,
                            remainingUsers |-> getUsersByRoom(users),
                            disturbed |-> tasks[i].disturbed])
  /\ out' = NoOut
  /\ UNCHANGED <<room, messages, connected, socketData, users, nextUserId, gameState,
                 activeVotes, nextVoteId, inactivityTimers, escalations,
                 spinTimers, graceTimers, kickedUsers, resolveCount>>
  /\ UNCHANGED limiterVars

\* `if (remainingUsers.length > 0 && targetUser.isHost) await makeUserHost(...)`
\* on the list held since AResolveList; otherwise resolveVote ends here.
AResolveHost(i) ==
  /\ tasks[i].kind = "resolve" /\ tasks[i].pc = "listed"
  /\ IF tasks[i].remainingUsers # {} /\ tasks[i].wasHost
       THEN /\ users' = makeUserHost(users, Min(tasks[i].remainingUsers))
            /\ tasks' = refreshHost(
                          afterWrite(i, [kind |-> "resolve", pc |-> "hosted",
                                         sock |-> tasks[i].sock, v |-> tasks[i].v,
                                         ev |-> tasks[i].ev,
                                         newHost |-> Min(tasks[i].remainingUsers),
                                         disturbed |-> tasks[i].disturbed]),
                          Min(tasks[i].remainingUsers))
            /\ out' = NoOut
            /\ UNCHANGED <<activeVotes, resolveCount>>
       ELSE /\ resolveEnd(i, 0)
            /\ UNCHANGED users
  /\ UNCHANGED <<room, messages, connected, socketData, nextUserId, gameState, nextVoteId,
                 inactivityTimers, escalations, spinTimers, graceTimers,
                 kickedUsers>>
  /\ UNCHANGED limiterVars

\* new_host and vote_resolved are emitted and the vote deleted.
AResolveFinish(i) ==
  /\ tasks[i].kind = "resolve" /\ tasks[i].pc = "hosted"
  /\ resolveEnd(i, tasks[i].newHost)
  /\ UNCHANGED <<room, messages, connected, socketData, users, nextUserId, gameState,
                 nextVoteId, inactivityTimers, escalations, spinTimers,
                 graceTimers, kickedUsers>>
  /\ UNCHANGED limiterVars

\* A User that getUser hands out as a copy: the handler keeps the count it
\* had when it was read.
heldSkipsCopy(seen, live) == seen

\* `user.skipsRemaining` of the User a use_skip holds since its getUser:
\* MemStorage hands out the stored object itself, so the handler reads the
\* count as it is now (live), not as it was when getUser ran (seen).
heldSkips(seen, live) == live

\* use_skip up to `await storage.getUser(socketData.userId)`.
AUseSkipGet(s) ==
  /\ connected[s]
  /\ socketData[s].userId # 0
  /\ HasFreeSlot
  /\ LET u == socketData[s].userId
     IN tasks' = afterRead(FreeSlot,
                   [kind |-> "skip", pc |-> "gotUser", sock |-> s, uid |-> u,
                    found |-> u \in DOMAIN users,
                    seen |-> IF u \in DOMAIN users
                               THEN users[u].skipsRemaining ELSE 0,
                    disturbed |-> FALSE])
  /\ out' = NoOut
  /\ UNCHANGED <<room, messages, connected, socketData, users, nextUserId,
                 gameState, activeVotes, nextVoteId, inactivityTimers,
                 escalations, spinTimers, graceTimers, kickedUsers,
                 resolveCount>>
  /\ UNCHANGED limiterVars

\* `if (!user || user.skipsRemaining <= 0)` and, in the same run,
\* `storage.updateUserSkips(socketData.userId, user.skipsRemaining - 1)`,
\* which writes when it is called; the handler then awaits it.  No user is
\* removed while a use_skip is suspended, so the User it holds is the one in
\* the repository.
AUseSkipUpdate(i) ==
  /\ tasks[i].kind = "skip" /\ tasks[i].pc = "gotUser"
  /\ LET u == tasks[i].uid
         held == IF u \in DOMAIN users
                   THEN heldSkips(tasks[i].seen, users[u].skipsRemaining)
                   ELSE tasks[i].seen
     IN IF tasks[i].found /\ held > 0
          THEN /\ users' = skipUsed(users, u, held - 1)
               /\ tasks' = afterWrite(i, [tasks[i] EXCEPT !.pc = "updated"])
               /\ out' = NoOut
          ELSE /\ users' = users
               /\ tasks' = afterRead(i, Idle)
               /\ out' = [Handled("use_skip", u) EXCEPT
                            !.error = "No skips remaining"]
  /\ UNCHANGED <<room, messages, connected, socketData, nextUserId, gameState,
                 activeVotes, nextVoteId, inactivityTimers, escalations,
                 spinTimers, graceTimers, kickedUsers, resolveCount>>
  /\ UNCHANGED limiterVars

\* `const users = await storage.getUsersByRoom(data.roomId)`
AUseSkipList(i) ==
  /\ tasks[i].kind = "skip" /\ tasks[i].pc = "updated"
  /\ tasks' = afterRead(i, [tasks[i] EXCEPT !.pc = "listed"])
  /\ out' = NoOut
  /\ UNCHANGED <<room, messages, connected, socketData, users, nextUserId,
                 gameState, activeVotes, nextVoteId, inactivityTimers,
                 escalations, spinTimers, graceTimers, kickedUsers,
                 resolveCount>>
  /\ UNCHANGED limiterVars

\* user_used_skip is broadcast and 'next_turn' emitted to the caller.
AUseSkipEmit(i) ==
  /\ tasks[i].kind = "skip" /\ tasks[i].pc = "listed"
  /\ tasks' = afterRead(i, Idle)
  /\ out' = Handled("use_skip", tasks[i].uid)
  /\ UNCHANGED <<room, messages, connected, socketData, users, nextUserId,
                 gameState, activeVotes, nextVoteId, inactivityTimers,
                 escalations, spinTimers, graceTimers, kickedUsers,
                 resolveCount>>
  /\ UNCHANGED limiterVars

\* ------------------------------------------------------------- behaviours
Next ==
  \/ \E s \in Sockets : JoinRoom(s)
  \/ \E s \in Sockets, t \in UserIds : SpinBottle(s, t)
  \/ \E t \in spinTimers : SpinResolve(t)
  \/ \E s \in Sockets, c \in {"truth", "dare"} : ChooseTruthOrDare(s, c)
  \/ \E s \in Sockets : SubmitQuestion(s)
  \/ \E s \in Sockets : NextTurn(s)
  \/ \E s \in Sockets : UseSkip(s)
  \/ \E s \in Sockets, t \in UserIds, ty \in VoteTypes : InitiateVote(s, t, ty)
  \/ \E s \in Sockets, v \in VoteIds, b \in BOOLEAN : CastVote(s, v, b)
  \/ \E v \in VoteIds : VoteTimeout(v)
  \/ \E u \in UserIds : InactivityWarn(u)
  \/ \E e \in escalations : InactivityEscalate(e)
  \/ \E s \in Sockets : Disconnect(s)
  \/ \E s \in Sockets : GraceFire(s)

NextVote ==
  \/ \E s \in Sockets : JoinRoom(s)
  \/ \E s \in Sockets, t \in UserIds, ty \in VoteTypes : InitiateVote(s, t, ty)
  \/ \E s \in Sockets, v \in VoteIds, b \in BOOLEAN : CastVote(s, v, b)
  \/ \E v \in VoteIds : VoteTimeout(v)
  \/ \E s \in Sockets : Disconnect(s)
  \/ \E s \in Sockets : GraceFire(s)

NextTurnEngine ==
  \/ \E s \in Sockets : JoinRoom(s)
  \/ \E s \in Sockets, t \in UserIds : SpinBottle(s, t)
  \/ \E t \in spinTimers : SpinResolve(t)
  \/ \E s \in Sockets, c \in {"truth", "dare"} : ChooseTruthOrDare(s, c)
  \/ \E s \in Sockets : SubmitQuestion(s)
  \/ \E s \in Sockets : NextTurn(s)
  \/ \E s \in Sockets : Disconnect(s)
  \/ \E s \in Sockets : GraceFire(s)

NextAsync ==
  \/ \E s \in Sockets : AJoinCreate(s)
  \/ \E i \in TaskIds : AJoinCount(i)
  \/ \E i \in TaskIds : AJoinHost(i)
  \/ \E i \in TaskIds : AJoinList(i)
  \/ \E i \in TaskIds : AJoinStartGame(i)
  \/ \E s \in Sockets, t \in UserIds, ty \in VoteTypes : AInitiateGet(s, t, ty)
  \/ \E i \in TaskIds : AInitiateCreate(i)
  \/ \E s \in Sockets, v \in VoteIds, b \in BOOLEAN : ACastSet(s, v, b)
  \/ \E i \in TaskIds : ACastCheck(i)
  \/ \E v \in VoteIds : AVoteTimeout(v)
  \/ \E i \in TaskIds : AResolveBan(i)
  \/ \E i \in TaskIds : AResolveDelete(i)
  \/ \E i \in TaskIds : AResolveList(i)
  \/ \E i \in TaskIds : AResolveHost(i)
  \/ \E i \in TaskIds : AResolveFinish(i)

\* Skips, turns and kicks in a room created with any maxSkips.
NextSkip ==
  \/ \E s \in Sockets : JoinRoom(s)
  \/ \E s \in Sockets : UseSkip(s)
  \/ \E s \in Sockets : NextTurn(s)
  \/ \E s \in Sockets, t \in UserIds, ty \in VoteTypes : InitiateVote(s, t, ty)
  \/ \E s \in Sockets, v \in VoteIds, b \in BOOLEAN : CastVote(s, v, b)
  \/ \E v \in VoteIds : VoteTimeout(v)

\* The turn engine under the inactivity supervisor, in a room of at most
\* LiveUsers users.
NextSupervise ==
  \/ \E s \in Sockets : nextUserId <= LiveUsers /\ JoinRoom(s)
  \/ \E s \in Sockets, t \in UserIds : SpinBottle(s, t)
  \/ \E t \in spinTimers : SpinResolve(t)
  \/ \E s \in Sockets, c \in {"truth", "dare"} : ChooseTruthOrDare(s, c)
  \/ \E s \in Sockets : SubmitQuestion(s)
  \/ \E u \in UserIds : InactivityWarn(u)
  \/ \E e \in escalations : InactivityEscalate(e)
  \/ \E v \in VoteIds : VoteTimeout(v)
  \/ \E s \in Sockets : Disconnect(s)
  \/ \E s \in Sockets : GraceFire(s)

\* Presence: joins under any display name, skips, connection losses and the
\* reconnect timers.  The display name is all a join_room carries to tell
\* who joins.
NextPresence ==
  \/ \E s \in Sockets, username \in UserIds : JoinRoomAs(s, username)
  \/ \E s \in Sockets : UseSkip(s)
  \/ \E s \in Sockets : Disconnect(s)
  \/ \E s \in Sockets : GraceFire(s)

\* The room's activity: the inbound room events of a room of at most
\* LiveUsers users, with no timer firing, and the passing of time.
NextActivity ==
  \/ \E s \in Sockets : nextUserId <= LiveUsers /\ JoinRoom(s)
  \/ \E s \in Sockets : SendMessage(s)
  \/ \E s \in Sockets, t \in UserIds : SpinBottle(s, t)
  \/ \E s \in Sockets, c \in {"truth", "dare"} : ChooseTruthOrDare(s, c)
  \/ \E s \in Sockets : SubmitQuestion(s)
  \/ \E s \in Sockets : NextTurn(s)
  \/ \E s \in Sockets : UseSkip(s)
  \/ \E s \in Sockets, t \in UserIds : InitiateVote(s, t, "kick")
  \/ \E s \in Sockets, v \in VoteIds, b \in BOOLEAN : CastVote(s, v, b)
  \/ TimePasses

\* The room's end: what sets timers and opens votes, the passing of time and
\* the cleanup interval.
NextReap ==
  \/ \E s \in Sockets : nextUserId <= LiveUsers /\ JoinRoom(s)
  \/ \E s \in Sockets : SendMessage(s)
  \/ \E s \in Sockets, t \in UserIds : SpinBottle(s, t)
  \/ \E t \in spinTimers : SpinResolve(t)
  \/ \E u \in UserIds : InactivityWarn(u)
  \/ \E e \in escalations : InactivityEscalate(e)
  \/ \E v \in VoteIds : VoteTimeout(v)
  \/ \E s \in Sockets : Disconnect(s)
  \/ \E s \in Sockets : GraceFire(s)
  \/ TimePasses
  \/ Reap

\* Spins of every duration in a room of at most LiveUsers users, with the
\* events that follow a spin or come between a spin and its resolution.
NextSpin ==
  \/ \E s \in Sockets : nextUserId <= LiveUsers /\ JoinRoom(s)
  \/ \E s \in Sockets, t \in UserIds, d \in durations : SpinBottleFor(s, t, d)
  \/ \E t \in spinTimers : SpinResolve(t)
  \/ \E s \in Sockets, c \in {"truth", "dare"} : ChooseTruthOrDare(s, c)
  \/ \E s \in Sockets : SubmitQuestion(s)
  \/ \E s \in Sockets : NextTurn(s)
  \/ \E s \in Sockets : Disconnect(s)
  \/ \E s \in Sockets : GraceFire(s)

\* The 5 s timers a fired inactivity timer may set.
EscalationValues == {[userId |-> u, sock |-> s] : u \in UserIds, s \in Sockets}

\* The spin-resolution timers a spin may set.
SpinTimerValues ==
  {[targetUserId |-> u, sock |-> s, duration |-> d, delay |-> spinDelay(d),
    id |-> i] :
     u \in UserIds, s \in Sockets, d \in durations, i \in 1..MaxSpinTimers}

\* Bans: kick votes in a room of at most LiveUsers users and the join
\* prechecks of any address.
NextBan ==
  \/ \E s \in Sockets : nextUserId <= LiveUsers /\ JoinRoom(s)
  \/ \E s \in Sockets, t \in UserIds : InitiateVote(s, t, "kick")
  \/ \E s \in Sockets, v \in VoteIds, b \in BOOLEAN : CastVote(s, v, b)
  \/ \E v \in VoteIds : VoteTimeout(v)
  \/ \E ip \in Sockets, allowed \in BOOLEAN : JoinPrecheck(ip, allowed)

\* The vote protocol with both ways a vote is created, in a room of at most
\* LiveUsers users.
NextLive ==
  \/ \E s \in Sockets : nextUserId <= LiveUsers /\ JoinRoom(s)
  \/ \E s \in Sockets, t \in UserIds, ty \in VoteTypes : InitiateVote(s, t, ty)
  \/ \E s \in Sockets, v \in VoteIds, b \in BOOLEAN : CastVote(s, v, b)
  \/ \E v \in VoteIds : VoteTimeout(v)
  \/ \E s \in Sockets, t \in UserIds : SpinBottle(s, t)
  \/ \E t \in spinTimers : SpinResolve(t)
  \/ \E s \in Sockets, c \in {"truth", "dare"} : ChooseTruthOrDare(s, c)
  \/ \E u \in UserIds : InactivityWarn(u)
  \/ \E e \in escalations : InactivityEscalate(e)
  \/ \E s \in Sockets : Disconnect(s)
  \/ \E s \in Sockets : GraceFire(s)

\* use_skip with its awaits as yield points, in a room of at most LiveUsers
\* users whose connections come and go.
NextAsyncSkip ==
  \/ \E s \in Sockets : nextUserId <= LiveUsers /\ JoinRoom(s)
  \/ \E s \in Sockets : AUseSkipGet(s)
  \/ \E i \in TaskIds : AUseSkipUpdate(i)
  \/ \E i \in TaskIds : AUseSkipList(i)
  \/ \E i \in TaskIds : AUseSkipEmit(i)
  \/ \E s \in Sockets : Disconnect(s)
  \/ \E s \in Sockets : GraceFire(s)

\* Two rooms: connections that joined the modelled room or the other room,
\* each joining once, and the spin_bottle, next_turn, initiate_vote and
\* cast_vote events whose payload names the modelled room, with no timer
\* firing.
NextRooms ==
  \/ \E s \in Sockets : nextUserId <= LiveUsers /\ JoinRoom(s)
  \/ \E s \in Sockets : socketData[s].userId = 0 /\ JoinOtherRoom(s)
  \/ \E s \in Sockets, t \in UserIds : SpinBottle(s, t)
  \/ \E s \in Sockets : NextTurn(s)
  \/ \E s \in Sockets, t \in UserIds : InitiateVote(s, t, "kick")
  \/ \E s \in Sockets, v \in VoteIds, b \in BOOLEAN : CastVote(s, v, b)

\* The rate limiter on its own: calls from any address for any action type,
\* and the passing of time.
NextLimit ==
  \/ \E s \in Sockets, a \in ActionTypes : CheckRateLimit(IpOf(s), a)
  \/ ClockTick

(***************************************************************************)
(* Spec is the whole server.  Its sub-protocols share the room's users but *)
(* hardly anything else, and their product is beyond exhaustive search, so *)
(* each is explored on its own:                                            *)
(*   SpecVote   membership, presence and player-initiated votes;           *)
(*   SpecTurn   membership, presence and the turn engine;                  *)
(*   FairSpec   votes created by players and by the inactivity             *)
(*              supervisor, with the vote timers firing;                   *)
(*   SpecAsync  join_room, initiate_vote, cast_vote and resolveVote with   *)
(*              their awaits as yield points;                              *)
(*   SpecSupervise  the turn engine with the inactivity supervisor;         *)
(*   FairSupervise  the same, with every timer firing;                      *)
(*   SpecPresence  joins under chosen display names and the reconnect      *)
(*              timers;                                                    *)
(*   SpecActivity  every inbound room event and the room's lastActivity;    *)
(*   SpecReap   timers, votes and the cleanup of an inactive room;         *)
(*   SpecBan    kick votes and the join prechecks of banned addresses;     *)
(*   FairSpin   spins of every duration, with the spin timers firing;      *)
(*   SpecAsyncSkip  use_skip with its awaits as yield points;               *)
(*   SpecRooms  events of connections that joined another room;             *)
(*   SpecLimit  checkRateLimit under any calls and the passing of time;      *)
(*   SpecSkip   membership, votes, use_skip and next_turn, in a room        *)
(*              created with any maxSkips.                                 *)
(***************************************************************************)
Spec == Init /\ [][Next]_vars
SpecAsync == Init /\ [][NextAsync]_vars
SpecLive == Init /\ [][NextLive]_vars
\* Node fires a timer that stays set: weak fairness of each vote timer.
FairSpec == SpecLive /\ \A v \in VoteIds : WF_vars(VoteTimeout(v))
SpecVote == Init /\ [][NextVote]_vars
SpecTurn == Init /\ [][NextTurnEngine]_vars
SpecSkip == InitSkips /\ [][NextSkip]_vars
SpecSupervise == Init /\ [][NextSupervise]_vars
SpecPresence == Init /\ [][NextPresence]_vars
SpecActivity == Init /\ [][NextActivity]_vars
SpecReap == Init /\ [][NextReap]_vars
SpecBan == Init /\ [][NextBan]_vars
SpecSpin == Init /\ [][NextSpin]_vars
SpecLimit == Init /\ [][NextLimit]_vars
\* Node fires a timer that stays set: weak fairness of every timer of the
\* turn engine and of the inactivity supervisor.
FairSupervise ==
  /\ SpecSupervise
  /\ \A t \in SpinTimerValues : WF_vars(SpinResolve(t))
  /\ \A u \in UserIds : WF_vars(InactivityWarn(u))
  /\ \A e \in EscalationValues : WF_vars(InactivityEscalate(e))
  /\ \A v \in VoteIds : WF_vars(VoteTimeout(v))
  /\ \A s \in Sockets : WF_vars(GraceFire(s))
SpecRooms == Init /\ [][NextRooms]_vars
SpecAsyncSkip == Init /\ [][NextAsyncSkip]_vars
\* Node fires a timer that stays set: weak fairness of each spin timer.
FairSpin == SpecSpin /\ \A t \in SpinTimerValues : WF_vars(SpinResolve(t))

\* ------------------------------------------------------------ properties
\* C1: every change of GameState.phase follows one of the edges of the turn
\* engine; an event that arrives in another phase leaves the phase unchanged.
C1_PhaseWalk ==
  [][gameState'.gamePhase # gameState.gamePhase
       => <<gameState.gamePhase, gameState'.gamePhase>> \in
            {<<"waiting", "spinning">>, <<"spinning", "choosing">>,
             <<"choosing", "asking">>, <<"asking", "answering">>,
             <<"answering", "waiting">>, <<"answering", "choosing">>,
             <<"waiting", "choosing">>}]_vars

\* C2: the handlers of a room are serialized: no handler writes to the room's
\* state while another handler is suspended between two of its storage calls.
C2_Serialized ==
  \A i \in TaskIds : tasks[i] # Idle => ~tasks[i].disturbed

\* C3: each vote is resolved at most once: at most one vote_resolved event
\* and at most one ban record per voteId.
C3_ResolvedOnce ==
  \A v \in VoteIds :
    /\ resolveCount[v] <= 1
    /\ Cardinality({k \in 1..Len(kickedUsers) : kickedUsers[k].voteId = v}) <= 1

\* C4: a ballot, once cast, never changes: a second cast_vote of the same
\* user leaves the ballots of the vote as they were.
C4_BallotFixed ==
  [][\A v \in VoteIds :
       (v \in DOMAIN activeVotes /\ v \in DOMAIN activeVotes')
         => \A u \in DOMAIN activeVotes[v].votes :
              /\ u \in DOMAIN activeVotes'[v].votes
              /\ activeVotes'[v].votes[u] = activeVotes[v].votes[u]]_vars

\* C5: a resolved vote is reported passed exactly when its yes ballots are
\* strictly more than its no ballots, the reported counts being those of the
\* ballots cast; a tie fails, and users without a ballot count for neither.
C5_PassedIffMajority ==
  out.resolved.voteId # 0 =>
    LET e == out.resolved
        yes == {u \in DOMAIN e.ballots : e.ballots[u] = TRUE}
        no == {u \in DOMAIN e.ballots : e.ballots[u] = FALSE}
    IN /\ e.yesVotes = Cardinality(yes)
       /\ e.noVotes = Cardinality(no)
       /\ e.passed <=> (Cardinality(yes) > Cardinality(no))

\* C5 witness: a vote resolved on a tie of one yes and one no.
C5_Witness ==
  /\ out.resolved.voteId # 0
  /\ out.resolved.yesVotes = 1
  /\ out.resolved.noVotes = 1
  /\ ~out.resolved.passed

\* C6: when a vote is resolved, its ballots are at most the eligible voters,
\* the online users of the room minus one.
C6_BallotsWithinEligible ==
  out.resolved.voteId # 0 =>
    out.resolved.yesVotes + out.resolved.noVotes <= out.resolved.onlineUsers - 1

\* C7: every vote that is created, by initiate_vote or by the inactivity
\* escalation, is eventually resolved and removed from activeVotes.
C7_VoteEventuallyResolved ==
  \A v \in VoteIds : (v \in DOMAIN activeVotes) ~> (v \notin DOMAIN activeVotes)

\* C7 witness: a vote created by the inactivity escalation that nobody voted
\* on has been resolved, which only its timer can do.
C7_Witness ==
  /\ out.resolved.voteId # 0
  /\ out.resolved.initiatorUserId = 0
  /\ out.resolved.yesVotes + out.resolved.noVotes = 0
  /\ out.resolved.voteId \notin DOMAIN activeVotes

\* C8: the ban record of a passed kick vote carries the origin address and
\* the display name of the removed target, who is no longer in the room.
C8_BanCarriesTarget ==
  \A k \in 1..Len(kickedUsers) :
    /\ kickedUsers[k].ipAddress = kickedUsers[k].targetIp
    /\ kickedUsers[k].username = kickedUsers[k].targetName
    /\ kickedUsers[k].targetUserId \notin DOMAIN users

\* C9: a room with an online user has exactly one online user with the host
\* flag.
C9_OneOnlineHost ==
  onlineUsers(users) # {} =>
    Cardinality({u \in onlineUsers(users) : users[u].isHost}) = 1

\* C10: a reassigned host is the earliest-joined user among the users online
\* at that moment.
C10_NewHostEarliestOnline ==
  out.newHost # 0 =>
    /\ out.newHost \in onlineUsers(users)
    /\ out.newHost = Min(onlineUsers(users))

\* C11: the target selected by an accepted spin_bottle is not the spinner and
\* is a user of the room who is online at the time of the spin.
C11_SpinTarget ==
  (out.event = "spin_bottle" /\ out.error = "none") =>
    /\ gameState.targetUserId # out.userId
    /\ gameState.targetUserId \in DOMAIN users
    /\ users[gameState.targetUserId].isOnline

\* C11 witness: a spin accepted while one user of the room is offline.
C11_Witness ==
  /\ out.event = "spin_bottle"
  /\ out.error = "none"
  /\ gameState.gamePhase = "spinning"
  /\ \E u \in DOMAIN users : ~users[u].isOnline

\* C12: GameState.targetUserId, when set, is not GameState.currentTurnUserId.
C12_TargetNotCurrent ==
  gameState.targetUserId # 0 =>
    gameState.targetUserId # gameState.currentTurnUserId

\* C13: the skip count of a user never increases and is never negative, and
\* a use_skip of a user whose count is 0 gets the error 'No skips remaining'
\* and changes no user, game or vote state.
C13_SkipCount ==
  [][/\ \A u \in DOMAIN users' : users'[u].skipsRemaining >= 0
     /\ \A u \in (DOMAIN users) \cap (DOMAIN users') :
          users'[u].skipsRemaining <= users[u].skipsRemaining
     /\ (/\ out'.event = "use_skip"
         /\ out'.userId \in DOMAIN users
         /\ users[out'.userId].skipsRemaining = 0)
          => /\ out'.error = "No skips remaining"
             /\ users' = users
             /\ gameState' = gameState
             /\ activeVotes' = activeVotes]_vars

\* C14: a use_skip of a user with a skip left advances the turn as next_turn
\* does: the GameState after it is the one next_turn writes.
C14_SkipAdvancesTurn ==
  [][(/\ out'.event = "use_skip"
      /\ out'.error = "none"
      /\ Cardinality(onlineUsers(users)) >= 2)
       => gameState' = nextTurnState(gameState, users)]_vars

\* C15: when a second user joins a room in which only one user has joined,
\* the phase being waiting and the turn unset, that join sets the phase to
\* choosing and gives the turn to the user who joined first.
C15_SecondJoinStartsGame ==
  [][(/\ Cardinality(DOMAIN users) = 1
      /\ nextUserId = 2
      /\ gameState.gamePhase = "waiting"
      /\ gameState.currentTurnUserId = 0
      /\ out'.event = "join_room")
       => /\ gameState'.gamePhase = "choosing"
          /\ gameState'.currentTurnUserId \in DOMAIN users]_vars

\* C15 witness: the second user has just joined and the first has the turn.
C15_Witness ==
  /\ out.event = "join_room"
  /\ out.userId = 2
  /\ DOMAIN users = {1, 2}
  /\ gameState.gamePhase = "choosing"
  /\ gameState.currentTurnUserId = 1
  /\ gameState.targetUserId = 0

\* C16: a spin target who takes no action after the phase enters choosing is
\* warned and then put to a system kick vote: the 120 s timer armed at the
\* spin resolution stays pending until it fires or the user performs
\* choose_truth_or_dare or submit_question; when it fires, user_inactive is
\* broadcast and the 5 s timer set; and when that fires, a kick vote of
\* initiator 'system' against the user is created and announced.
C16_InactivityEscalates ==
  [][\A u \in UserIds :
       /\ (\E t \in spinTimers \ spinTimers' : t.targetUserId = u)
            => u \in DOMAIN inactivityTimers'
       /\ (/\ gameState.gamePhase = "choosing" /\ gameState.targetUserId = u
           /\ u \in DOMAIN inactivityTimers /\ u \notin DOMAIN inactivityTimers')
            => \/ out'.inactive = u
               \/ /\ out'.event \in {"choose_truth_or_dare", "submit_question"}
                  /\ out'.userId = u
       /\ out'.inactive = u => \E e \in escalations' : e.userId = u
       /\ (\E e \in escalations \ escalations' : e.userId = u)
            => /\ out'.started.voteId \in DOMAIN activeVotes'
               /\ out'.started.targetUserId = u
               /\ out'.started.initiatorUserId = 0
               /\ out'.started.type = "kick"]_vars

\* C17: when the supervised user performs the action that advances the state
\* machine (choose_truth_or_dare by the target in choosing, submit_question
\* by the current-turn user in asking), no supervision timer of that user set
\* before the action stays pending.
C17_ActionCancelsSupervision ==
  [][\A u \in UserIds :
       (/\ out'.userId = u
        /\ \/ /\ out'.event = "choose_truth_or_dare"
              /\ gameState.gamePhase = "choosing"
              /\ gameState.targetUserId = u
           \/ /\ out'.event = "submit_question"
              /\ gameState.gamePhase = "asking"
              /\ gameState.currentTurnUserId = u)
         => /\ \A e \in escalations' : e.userId # u
            /\ u \in DOMAIN inactivityTimers'
                 => /\ out'.event = "choose_truth_or_dare"
                    /\ gameState.currentTurnUserId = u]_vars

\* C18: a join_room under the display name of a user whose connection
\* dropped and whose reconnect timer is still pending cancels that timer and
\* resumes that user: the joining connection gets the same User record, which
\* stays online with its skip count and host flag, and no User record is
\* added.
C18_RejoinResumes ==
  [][\A u \in DOMAIN users :
       LET sk == users[u].socketId IN
       (/\ out'.event = "join_room"
        /\ sk \in graceTimers
        /\ socketData[sk].userId = u
        /\ users'[out'.userId].username = users[u].username)
         => /\ sk \notin graceTimers'
            /\ out'.userId = u
            /\ DOMAIN users' = DOMAIN users
            /\ users'[u].isOnline
            /\ users'[u].skipsRemaining = users[u].skipsRemaining
            /\ users'[u].isHost = users[u].isHost]_vars

\* C19: when the cleanup interval removes the room, its record and its
\* messages are gone and nothing of its session is left: no spin, inactivity,
\* vote-timeout or reconnect timer is pending and no vote is open.
C19_ReapTearsDown ==
  [][(room.exists /\ ~room'.exists)
       => /\ messages' = 0
          /\ spinTimers' = {}
          /\ DOMAIN inactivityTimers' = {}
          /\ escalations' = {}
          /\ graceTimers' = {}
          /\ DOMAIN activeVotes' = {}]_vars

\* C20: every inbound room event the server accepts (join_room, send_message,
\* spin_bottle, choose_truth_or_dare, submit_question, next_turn, use_skip,
\* initiate_vote, cast_vote) leaves the room's lastActivity at the current
\* time.
C20_EventsBumpActivity ==
  [][(/\ room.exists
      /\ out'.event \in {"join_room", "send_message", "spin_bottle",
                         "choose_truth_or_dare", "submit_question",
                         "next_turn", "use_skip", "initiate_vote",
                         "cast_vote"}
      /\ out'.error = "none")
       => room'.lastActivity = "now"]_vars

\* C21: an inbound event other than join_room sent on a connection that has
\* not joined a room changes nothing of the room, its users, its game state,
\* its votes or its timers.
C21_UnjoinedChangesNothing ==
  [][(/\ out'.event \notin {"none", "join_room"}
      /\ out'.userId = 0)
       => UNCHANGED <<room, messages, users, nextUserId, gameState,
                      activeVotes, nextVoteId, inactivityTimers, escalations,
                      spinTimers, graceTimers, kickedUsers>>]_vars

\* C22: when a kick vote passes and removes a user whose connection is still
\* open, that connection is sent kicked_from_room and is taken out of the
\* room's broadcast group.
C22_KickedIsDetached ==
  [][\A u \in DOMAIN users :
       (/\ out'.resolved.voteId # 0
        /\ out'.resolved.passed
        /\ out'.resolved.type = "kick"
        /\ out'.resolved.targetUserId = u
        /\ connected[users[u].socketId]
        /\ socketData[users[u].socketId].userId = u)
         => users[u].socketId \in out'.kicked]_vars

\* C23: once a banned address has made MaxRejoinAttempts join prechecks that
\* passed the rate limiter, its ban record is permanently blocked, and a
\* precheck it makes after those is rejected with requiresVote = false.
C23_TenAttemptsBlock ==
  \A ip \in Sockets :
    LET k == getKickedUser(kickedUsers, ip) IN
    (k # 0 /\ kickedUsers[k].prechecks >= MaxRejoinAttempts)
      => /\ kickedUsers[k].isPermanentlyBlocked
         /\ (/\ out.response.status \in {403, 429}
             /\ out.response.ip = ip
             /\ kickedUsers[k].prechecks > MaxRejoinAttempts)
              => /\ out.response.status = 403
                 /\ ~out.response.requiresVote

\* C24: a turn action sent by a joined user other than its designated actor
\* (spin_bottle: the current-turn user; choose_truth_or_dare: the target;
\* submit_question: the current-turn user; use_skip: the target, in phase
\* choosing or answering) changes no game state, skip count or timer.
C24_DesignatedActorOnly ==
  [][(/\ out'.userId # 0
      /\ \/ /\ out'.event \in {"spin_bottle", "submit_question"}
            /\ out'.userId # gameState.currentTurnUserId
         \/ /\ out'.event = "choose_truth_or_dare"
            /\ out'.userId # gameState.targetUserId
         \/ /\ out'.event = "use_skip"
            /\ \/ out'.userId # gameState.targetUserId
               \/ gameState.gamePhase \notin {"choosing", "answering"})
       => UNCHANGED <<gameState, users, spinTimers, inactivityTimers,
                      escalations>>]_vars

\* C25: the spin-resolution callback acts only on the state it was scheduled
\* for: when it fires and the room is gone, or the phase is no longer
\* spinning, or the target is no longer the user its spin selected, or that
\* user is no longer in the room, it leaves the game state and the inactivity
\* timers as they are.
C25_SpinResolveRevalidates ==
  [][\A t \in spinTimers \ spinTimers' :
       ~(/\ room.exists
         /\ gameState.gamePhase = "spinning"
         /\ gameState.targetUserId = t.targetUserId
         /\ t.targetUserId \in DOMAIN users)
         => UNCHANGED <<gameState, inactivityTimers>>]_vars

\* C26, its steps: an accepted spin_bottle announces a target and a duration
\* of 2000, 4500 or 7000 ms and sets a timer of that duration plus 1000 ms
\* for that target; a pending spin timer goes only by firing, which leaves
\* the phase choosing with the timer's target.
C26_SpinSafe ==
  /\ (out'.event = "spin_bottle" /\ out'.error = "none")
       => /\ out'.spinning.duration \in {2000, 4500, 7000}
          /\ \E t \in spinTimers' \ spinTimers :
               /\ t.targetUserId = out'.spinning.targetUserId
               /\ t.duration = out'.spinning.duration
               /\ t.delay = out'.spinning.duration + 1000
  /\ \A t \in spinTimers \ spinTimers' :
       /\ gameState'.gamePhase = "choosing"
       /\ gameState'.targetUserId = t.targetUserId

\* C26: after every accepted spin_bottle the phase becomes choosing with the
\* announced target, by a timer of the announced duration plus 1000 ms that
\* no event cancels: every step is as C26_SpinSafe says, and every pending
\* spin timer leads to the phase choosing with its target.
C26_SpinResolves ==
  /\ [][C26_SpinSafe]_vars
  /\ \A t \in SpinTimerValues :
       (t \in spinTimers)
         ~> (gameState.gamePhase = "choosing"
             /\ gameState.targetUserId = t.targetUserId)

\* C26 witness: a spin timer has fired after a choice was made, and left the
\* phase choosing with the target of its spin.
C26_Witness ==
  /\ spinTimers = {}
  /\ gameState.gamePhase = "choosing"
  /\ gameState.targetUserId \in DOMAIN users
  /\ gameState.choice # "null"
  /\ out = NoOut

\* C27: a next_turn in a room with at least two online users gives the turn
\* to the online user that follows the previous current-turn user in join
\* order, wrapping from the last to the first, clears target, question and
\* choice, and sets the phase to choosing if exactly two users are online and
\* to waiting otherwise.
C27_NextTurnFollows ==
  [][(out'.event = "next_turn" /\ Cardinality(onlineUsers(users)) >= 2)
       => LET online == onlineUsers(users)
              after == {u \in online : u > gameState.currentTurnUserId}
          IN /\ gameState'.currentTurnUserId =
                  IF after # {} THEN Min(after) ELSE Min(online)
             /\ gameState'.targetUserId = 0
             /\ gameState'.questionText = 0
             /\ gameState'.choice = "null"
             /\ gameState'.gamePhase =
                  IF Cardinality(online) = 2 THEN "choosing" ELSE "waiting"]_vars

\* C28: a spin_bottle sent while fewer than two users are online fails with
\* the error 'Not enough players' to the caller, changes no game state and
\* sets no spin-resolution or inactivity timer.
C28_SpinNeedsTwo ==
  [][(out'.event = "spin_bottle" /\ Cardinality(onlineUsers(users)) < 2)
       => /\ out'.error = "Not enough players"
          /\ out'.spinning = NoOut.spinning
          /\ UNCHANGED <<gameState, spinTimers, inactivityTimers, escalations,
                         users>>]_vars

\* C28 witness: a spin was refused in a room whose only online user is not
\* the caller.
C28_Witness ==
  /\ out.event = "spin_bottle"
  /\ out.error = "Not enough players"
  /\ Cardinality(onlineUsers(users)) = 1
  /\ out.userId \notin onlineUsers(users)

\* C29: when an accepted ballot brings the number of ballots of a vote to the
\* number of users of the room other than the target, the vote is resolved in
\* that step: vote_resolved is emitted for it once, and the vote and its
\* 30 s timer are gone, so the timer cannot resolve or announce it again.
C29_QuorumResolvesAtOnce ==
  [][\A v \in DOMAIN activeVotes :
       (/\ out'.event = "cast_vote"
        /\ out'.userId \notin DOMAIN activeVotes[v].votes
        /\ (v \notin DOMAIN activeVotes' \/ activeVotes'[v] # activeVotes[v])
        /\ Cardinality(DOMAIN activeVotes[v].votes) + 1 =
             Cardinality((DOMAIN users) \ {activeVotes[v].targetUserId}))
         => /\ out'.resolved.voteId = v
            /\ resolveCount'[v] = resolveCount[v] + 1
            /\ v \notin DOMAIN activeVotes']_vars

\* C29 witness: the second of two ballots resolved a vote at once in a room
\* of three users.
C29_Witness ==
  /\ out.event = "cast_vote"
  /\ out.resolved.voteId # 0
  /\ Cardinality(DOMAIN out.resolved.ballots) = 2
  /\ out.resolved.roomUsers = 3
  /\ out.resolved.targetUserId \notin DOMAIN out.resolved.ballots

\* C30: a disconnect leaves every online flag as it is and sets the
\* reconnect timer of the connection; an online flag is cleared only by a
\* reconnect timer that fires; and when the timer of a connection fires and
\* its user is still in the room, the user is set offline and user_left names
\* it, and if it held the host flag and some user is still online, the
\* earliest-joined online user gets the host flag and new_host names that
\* user, and otherwise no new_host is emitted.
C30_GraceThenOffline ==
  [][/\ \A s \in Sockets :
          (connected[s] /\ ~connected'[s])
            => /\ users' = users
               /\ s \in graceTimers'
     /\ \A u \in (DOMAIN users) \cap (DOMAIN users') :
          (users[u].isOnline /\ ~users'[u].isOnline)
            => \E s \in graceTimers \ graceTimers' : socketData[s].userId = u
     /\ \A s \in graceTimers \ graceTimers' :
          LET u == socketData[s].userId
              online == onlineUsers(users')
          IN u \in DOMAIN users
               => /\ u \in DOMAIN users'
                  /\ ~users'[u].isOnline
                  /\ out'.left = u
                  /\ IF users[u].isHost /\ online # {}
                       THEN /\ out'.newHost = Min(online)
                            /\ users'[Min(online)].isHost
                       ELSE out'.newHost = 0]_vars

\* C30 witness: the reconnect timer of the host fired while two other users
\* were online, and the host passed on.
C30_Witness ==
  /\ out.left # 0
  /\ out.newHost # 0
  /\ out.left \in DOMAIN users
  /\ ~users[out.left].isOnline
  /\ Cardinality(onlineUsers(users)) = 2

\* C31: the cleanup interval expires and deletes the room only when its
\* lastActivity is more than 30 minutes old, and a room whose lastActivity is
\* that old can be reaped whatever the number of its online users.
C31_ReapOnlyWhenIdle ==
  [][/\ (room.exists /\ ~room'.exists) => room.lastActivity = "old"
     /\ (room.exists /\ room.lastActivity = "old") => ENABLED Reap]_vars

\* The room was reaped while two of its users were online.
C31_Witness ==
  /\ ~room.exists
  /\ room.lastActivity = "old"
  /\ Cardinality(onlineUsers(users)) >= 2

\* C32: for every address and every action type with a configured limit, no
\* window of windowMs holds more than maxRequests calls that checkRateLimit
\* admitted.
C32_AtMostMaxPerWindow ==
  \A s \in Sockets, a \in DOMAIN rateLimitConfigs, t \in 0..MaxClock :
    Cardinality({k \in 1..Len(admitted) :
                   /\ admitted[k].ipAddress = IpOf(s)
                   /\ admitted[k].actionType = a
                   /\ admitted[k].at >= t * Tick
                   /\ admitted[k].at < t * Tick + rateLimitConfigs[a].windowMs})
      <= rateLimitConfigs[a].maxRequests

\* C33: an event sent on a connection that joined another room changes
\* nothing of the modelled room: its game state, its users, its votes and
\* its timers stay as they are, whatever room or vote the payload names.
C33_OtherRoomUntouched ==
  [][(/\ out'.event # "none"
      /\ \E s \in Sockets : /\ socketData[s].roomId = OtherRoom
                             /\ out'.userId = socketData[s].userId)
       => UNCHANGED <<gameState, users, activeVotes, spinTimers,
                      inactivityTimers, escalations, graceTimers>>]_vars

\* C34: once a passed kick vote has removed a user from the room, no event
\* of that user's connection (spin_bottle, choose_truth_or_dare,
\* submit_question, use_skip, initiate_vote, cast_vote, send_message) changes
\* the room's game state, its votes or its messages.
C34_KickedIsSilenced ==
  [][(/\ out'.event \in {"spin_bottle", "choose_truth_or_dare",
                         "submit_question", "use_skip", "initiate_vote",
                         "cast_vote", "send_message"}
      /\ out'.userId \notin DOMAIN users
      /\ \E k \in 1..Len(kickedUsers) :
            kickedUsers[k].targetUserId = out'.userId)
       => UNCHANGED <<gameState, activeVotes, messages>>]_vars

\* C35: a cast_vote of the target of a vote, or of a caller who is no user of
\* the room, records no ballot in that vote: the ballots of the vote stay as
\* they were, and a vote_resolved of the vote counts them as they were.
C35_OnlyEligibleBallots ==
  [][\A v \in DOMAIN activeVotes :
       (/\ out'.event = "cast_vote"
        /\ \/ out'.userId = activeVotes[v].targetUserId
           \/ out'.userId \notin DOMAIN users)
         => /\ v \in DOMAIN activeVotes'
                 => activeVotes'[v].votes = activeVotes[v].votes
            /\ out'.resolved.voteId = v
                 => out'.resolved.ballots = activeVotes[v].votes]_vars

\* C36: a join_room creates no User record for a connection whose origin
\* address holds a ban record of the room.
C36_BannedCannotJoin ==
  [][out'.event = "join_room"
       => getKickedUser(kickedUsers, IpOf(users'[out'.userId].socketId)) = 0]_vars

\* C37: every use_skip that passes its test lowers the caller's skip count by
\* exactly one, also while another use_skip of the same user is suspended at
\* an await: a user who joined with n skips and had k such use_skip events
\* has n - k skips.
C37_EachSkipTakesOne ==
  \A u \in DOMAIN users :
    users[u].skipsRemaining = room.maxSkips - users[u].used

\* Two use_skip events of one user are in flight, one past its write and one
\* before its test, and the count has been lowered once.
C37_Witness ==
  \E i, j \in TaskIds :
    /\ tasks[i].kind = "skip" /\ tasks[i].pc = "updated"
    /\ tasks[j].kind = "skip" /\ tasks[j].pc = "gotUser"
    /\ tasks[i].uid = tasks[j].uid
    /\ tasks[j].seen = room.maxSkips
    /\ tasks[i].uid \in DOMAIN users
    /\ users[tasks[i].uid].used = 1
    /\ users[tasks[i].uid].skipsRemaining = room.maxSkips - 1

\* C38: whenever the phase is choosing, asking or answering,
\* GameState.targetUserId is set and names a user of the room.
C38_TargetDesignated ==
  gameState.gamePhase \in {"choosing", "asking", "answering"}
    => /\ gameState.targetUserId # 0
       /\ gameState.targetUserId \in DOMAIN users

\* The user the turn waits for: the target in phase choosing, the
\* current-turn user in phase asking.
C39_Expected(u) ==
  \/ gameState.gamePhase = "choosing" /\ gameState.targetUserId = u
  \/ gameState.gamePhase = "asking" /\ gameState.currentTurnUserId = u

\* C39: a turn does not stall on an absent player: if from some time on the
\* turn waits for the same user, no client sends an event (connections may
\* drop) and a vote can still be opened, then a kick vote of initiator
\* 'system' against that user is created.
C39_AbsentPlayerEscalates ==
  \A u \in UserIds :
    <>[](/\ C39_Expected(u)
         /\ u \in DOMAIN users
         /\ out.event = "none"
         /\ nextVoteId <= MaxVotes)
      => <>(/\ out.started.voteId # 0
            /\ out.started.initiatorUserId = 0
            /\ out.started.targetUserId = u)

\* C40: no online User record outlives its connection: a user who is marked
\* online was created through a connection that is still connected or whose
\* reconnect timer is still pending, however many join_room events the
\* connection sent.
C40_OnlineHasConnection ==
  \A u \in DOMAIN users :
    users[u].isOnline
      => \/ connected[users[u].socketId]
         \/ users[u].socketId \in graceTimers

====
